---- MODULE Spec2Model ----
(***************************************************************************)
(* The request queue of openrasp-iast (core/model/new_request_model.py):   *)
(* the ResultList table, the in-memory cursor start_id, and the operations *)
(* put, get_new_scan, mark_result, get_scan_count, get_last_time,          *)
(* _init_start_id and reset_unscanned_item.  Every await of a coroutine is *)
(* a step boundary: producers (put) and the progress poller               *)
(* (get_scan_count, get_last_time) interleave with the single consumer     *)
(* (get_new_scan, mark_result) between the consumer's queries.             *)
(* And the HTTP session of a scanner module                                *)
(* (core/components/audit_tools/session.py): send_request with its retry   *)
(* loop, called by the worker coroutines that share the session.           *)
(***************************************************************************)
EXTENDS Integers, Sequences, FiniteSets, TLC

\* ---------------------------------------------------------------- bounds
\* data_hash values the producers draw from; the unique index makes this
\* the largest number of rows the table can hold.
MaxHash == 3
\* payloads (the data column) the producers of SpecStore draw from
MaxData == 2
\* largest timestamp the clock of SpecStore reaches
MaxTime == 1
\* largest count passed to get_new_scan
MaxCount == 2
\* largest scanner.retry_times the configuration holds
MaxRetry == 2
\* largest scanner.max_concurrent_request the configuration holds
MaxConcurrent == 2
\* worker coroutines sharing the Session
NumWorkers == 2
\* coroutines calling get_new_scan on one table in ConcurrentSpec
NumCallers == 2

\* ------------------------------------------------------- scan_status codes
UNSCANNED == 0
SCANNED == 1
IN_PROGRESS == 2
FAILED == 3

VARIABLES
    table,      \* the ResultList rows, row i has id i (AutoField)
    start_id,   \* NewRequestModel.start_id
    phase,      \* "running", "down" (process crashed), "constructed" (__init__ done)
    cons,       \* the consumer coroutine: position and locals of get_new_scan / mark_result
    mon,        \* the poller coroutine: position and locals of get_scan_count
    batch,      \* the ids of the list get_new_scan returned last, until a mark_result has reported them
    put_ret,    \* what the last put returned: "True", "False", or "none" before the first
    at_call,    \* the rows as they were when the consumer's running call started
    returned,   \* ids returned by get_new_scan since the process started
    callers,    \* further coroutines calling get_new_scan on the same table: position and locals
    claim_count,\* for the ids marked by an UPDATE of get_new_scan since the process started, by how many
    failed_call,\* the mark_result call that raised DatabaseError last: its arguments and the state it saw and left
    config,     \* Config(): scanner.retry_times and scanner.max_concurrent_request
    workers     \* the coroutines sharing the Session: position and locals of send_request

\* the queue and its single consumer
qvars == <<table, start_id, phase, cons, mon, batch, put_ret, at_call, returned>>
\* what the operations of the single consumer's queue leave alone
aux == <<callers, claim_count, failed_call, config, workers>>

vars == <<table, start_id, phase, cons, mon, batch, put_ret, at_call, returned,
          callers, claim_count, failed_call, config, workers>>

\* ------------------------------------------------------------- helpers
Ids(t) == DOMAIN t

Min(S) == CHOOSE x \in S : \A y \in S : x <= y
Max(S) == CHOOSE x \in S : \A y \in S : x >= y

RECURSIVE Sorted(_)
\* ORDER BY id: the ids of S in increasing order
Sorted(S) == IF S = {} THEN <<>> ELSE <<Min(S)>> \o Sorted(S \ {Min(S)})

\* LIMIT n
Limit(s, n) == SubSeq(s, 1, IF n < Len(s) THEN n ELSE Len(s))

Range(s) == {s[i] : i \in DOMAIN s}

SetStatus(t, S, st) ==
    [i \in DOMAIN t |-> IF i \in S THEN [t[i] EXCEPT !.scan_status = st] ELSE t[i]]

IdleCons == [pc |-> "idle", count |-> 0, fetch_star_id |-> 0, row_count |-> 0,
             last_id |-> 0, failed_list |-> {}]
IdleMon == [pc |-> "idle", scanned |-> 0]

Callers == 1..NumCallers
IdleCaller == [pc |-> "idle", count |-> 0, fetch_star_id |-> 0, row_count |-> 0,
               claimed |-> {}, result |-> <<>>]

Workers == 1..NumWorkers
IdleWorker == [pc |-> "idle", method |-> "", retry_times |-> 0, attempts |-> 0,
               failures |-> 0, response |-> 0]

\* the configurations of the scanner: retry_times >= 0, max_concurrent_request >= 1
Configs == [retry_times : 0..MaxRetry, max_concurrent_request : 1..MaxConcurrent]

\* ------------------------------------------------------------ the queries
\* _init_start_id: MIN(id) WHERE scan_status != 1, minus one; 0 when there is none
InitStartId(t) ==
    LET ns == {i \in Ids(t) : t[i].scan_status # SCANNED}
    IN  IF ns = {} THEN 0 ELSE Min(ns) - 1

\* the UPDATE with scan_status > 0
ResetRowsScannedToo(t) == SetStatus(t, {i \in Ids(t) : t[i].scan_status > 0}, UNSCANNED)

\* reset_unscanned_item: UPDATE scan_status = 0 WHERE scan_status > 1
ResetRows(t) == SetStatus(t, {i \in Ids(t) : t[i].scan_status > SCANNED}, UNSCANNED)

\* a data_hash column without the unique index
NoUniqueIndex(t, h) == FALSE

\* the unique index on data_hash
UniqueViolation(t, h) == \E i \in Ids(t) : t[i].data_hash = h

\* get_new_scan, first query: the rows WHERE id > start_id AND scan_status = 0.
\* The query has LIMIT 1 and no ORDER BY: it returns any one of them.
ProbeRows(t, s) == {i \in Ids(t) : i > s /\ t[i].scan_status = UNSCANNED}

\* the UPDATE with ORDER BY id DESC
ClaimRowsHighestFirst(t, s, count) ==
    LET u == {i \in Ids(t) : t[i].scan_status = 0 /\ i > s}
        n == IF count < Cardinality(u) THEN count ELSE Cardinality(u)
    IN  Range(SubSeq(Sorted(u), Cardinality(u) - n + 1, Cardinality(u)))

\* the UPDATE without its test of scan_status
ClaimRowsAnyStatus(t, s, count) ==
    Range(Limit(Sorted({i \in Ids(t) : i > s}), count))

\* the UPDATE without its LIMIT
ClaimRowsUnlimited(t, s, count) ==
    {i \in Ids(t) : t[i].scan_status = 0 /\ i > s}

\* get_new_scan, second query: the rows the UPDATE ... ORDER BY id LIMIT count marks
ClaimRows(t, s, count) ==
    Range(Limit(Sorted({i \in Ids(t) : t[i].scan_status = UNSCANNED /\ i > s}), count))

\* the third query without its lower bound on id
FetchRowsFromStart(t, fetch_star_id, row_count) ==
    Limit(Sorted({i \in Ids(t) : t[i].scan_status = 2}), row_count)

\* get_new_scan, third query: id >= fetch_star_id AND scan_status = 2 ORDER BY id LIMIT row_count
FetchRows(t, fetch_star_id, row_count) ==
    Limit(Sorted({i \in Ids(t) : i >= fetch_star_id /\ t[i].scan_status = IN_PROGRESS}), row_count)

\* mark_result, first UPDATE: id <= last_id AND id > start_id AND id IN failed_list
FailedRows(t, s, last_id, failed_list) ==
    {i \in Ids(t) : i <= last_id /\ i > s /\ i \in failed_list}

\* the second UPDATE with LIMIT 1
ScannedRowsFirstOnly(t, s, last_id) ==
    Range(Limit(Sorted({i \in Ids(t) : i <= last_id /\ i > s /\ t[i].scan_status = 2}), 1))

\* the second UPDATE without its upper bound on id
ScannedRowsAboveLastId(t, s, last_id) ==
    {i \in Ids(t) : i > s /\ t[i].scan_status = 2}

\* the second UPDATE without its test of scan_status
ScannedRowsAnyStatus(t, s, last_id) ==
    {i \in Ids(t) : i <= last_id /\ i > s}

\* mark_result, second UPDATE: id <= last_id AND id > start_id AND scan_status = 2
ScannedRows(t, s, last_id) ==
    {i \in Ids(t) : i <= last_id /\ i > s /\ t[i].scan_status = IN_PROGRESS}

\* mark_result, third query: MAX(id) WHERE id > start_id AND scan_status = 1;
\* <<>> stands for None, <<m>> for the scalar m
MaxScannedId(t, s) ==
    LET sc == {i \in Ids(t) : i > s /\ t[i].scan_status = SCANNED}
    IN  IF sc = {} THEN <<>> ELSE <<Max(sc)>>

\* the assignment taking None for 0
NewStartIdOrZero(result, s) == IF result # <<>> THEN result[1] ELSE 0

\* mark_result, the assignment after the third query
NewStartId(result, s) == IF result # <<>> THEN result[1] ELSE s

\* get_scan_count, first query: COUNT(id) WHERE scan_status = 1
CountScanned(t) == Cardinality({i \in Ids(t) : t[i].scan_status = SCANNED})

\* the second COUNT restricted to the rows not scanned yet
CountUnscanned(t) == Cardinality({i \in Ids(t) : t[i].scan_status = 0})

\* get_scan_count, second query: COUNT(id)
CountTotal(t) == Cardinality(Ids(t))

\* get_last_time: ORDER BY time DESC LIMIT 1, 0 when there is no row
LastTime(t) == IF Ids(t) = {} THEN 0 ELSE Max({t[i].time : i \in Ids(t)})

\* the timestamps common.get_timestamp can give a new row: the clock does not run backwards
Stamps(t) == LastTime(t)..MaxTime

\* what put is given: rasp_result_ins.dump() and rasp_result_ins.get_hash()
Inputs == [data : 1..MaxData, data_hash : 1..MaxHash]

\* The dispatch protocol never reads data, data_hash or time, so the specifications
\* about it take one representative of each new row: payload 1, the lowest unused
\* hash, the clock standing still.  Hashes already in the table stay available, so
\* duplicate puts still happen.
ProtocolInputs(t) == {r \in Inputs : r.data = 1 /\ r.data_hash <= Len(t) + 1}

\* ------------------------------------------------------------------ state
\* the queue opened on an empty table
InitQueue ==
    /\ table = <<>>
    /\ start_id = 0
    /\ phase = "running"
    /\ cons = IdleCons
    /\ mon = IdleMon
    /\ batch = <<>>
    /\ put_ret = "none"
    /\ at_call = <<>>
    /\ returned = {}
    /\ callers = [c \in Callers |-> IdleCaller]
    /\ claim_count = <<>>
    /\ failed_call = <<>>

\* the Session after async_init, no send_request running
InitSession == workers = [w \in Workers |-> IdleWorker]

Init ==
    /\ InitQueue
    /\ InitSession
    /\ config = [retry_times |-> 0, max_concurrent_request |-> 1]

\* ------------------------------------------------------------------- put
\* create_object succeeds: put returns True
PutInserted(r, now) ==
    /\ phase = "running"
    /\ ~UniqueViolation(table, r.data_hash)
    /\ table' = Append(table, [data |-> r.data, data_hash |-> r.data_hash,
                               scan_status |-> UNSCANNED, time |-> now])
    /\ put_ret' = "True"
    /\ UNCHANGED <<start_id, phase, cons, mon, batch, at_call, returned>>
    /\ UNCHANGED aux

\* create_object raises peewee.IntegrityError: put returns False
PutDuplicate(r) ==
    /\ phase = "running"
    /\ UniqueViolation(table, r.data_hash)
    /\ put_ret' = "False"
    /\ UNCHANGED <<table, start_id, phase, cons, mon, batch, at_call, returned>>
    /\ UNCHANGED aux

Put(r, now) == PutInserted(r, now) \/ PutDuplicate(r)

\* ---------------------------------------------------------- get_new_scan
\* the call and its first query; an empty result returns [] at once
GnsProbe(count) ==
    /\ phase = "running"
    /\ cons.pc = "idle"
    /\ IF ProbeRows(table, start_id) = {}
       THEN /\ batch' = <<>>
            /\ UNCHANGED <<cons, at_call>>
       ELSE /\ \E f \in ProbeRows(table, start_id) :
                 cons' = [IdleCons EXCEPT !.pc = "gns_claim", !.count = count,
                                          !.fetch_star_id = f]
            /\ at_call' = table
            /\ UNCHANGED batch
    /\ UNCHANGED <<table, start_id, phase, mon, put_ret, returned>>
    /\ UNCHANGED aux

\* the UPDATE that marks the rows; row_count = 0 returns []
GnsClaim ==
    /\ phase = "running"
    /\ cons.pc = "gns_claim"
    /\ LET rows == ClaimRows(table, start_id, cons.count)
           row_count == Cardinality(rows)
       IN  /\ table' = SetStatus(table, rows, IN_PROGRESS)
           /\ IF row_count = 0
              THEN /\ cons' = IdleCons
                   /\ batch' = <<>>
                   /\ at_call' = <<>>
              ELSE /\ cons' = [cons EXCEPT !.pc = "gns_fetch", !.row_count = row_count]
                   /\ UNCHANGED <<batch, at_call>>
    /\ UNCHANGED <<start_id, phase, mon, put_ret, returned>>
    /\ UNCHANGED aux

\* the SELECT of the marked rows, and the return of the list
GnsFetch ==
    /\ phase = "running"
    /\ cons.pc = "gns_fetch"
    /\ batch' = FetchRows(table, cons.fetch_star_id, cons.row_count)
    /\ returned' = returned \cup Range(batch')
    /\ cons' = IdleCons
    /\ at_call' = <<>>
    /\ UNCHANGED <<table, start_id, phase, mon, put_ret>>
    /\ UNCHANGED aux

\* ----------------------------------------------------------- mark_result
\* the call, the test last_id > start_id and the first UPDATE
MrFailed(last_id, failed_list) ==
    /\ phase = "running"
    /\ cons.pc = "idle"
    /\ IF last_id > start_id
       THEN /\ table' = SetStatus(table, FailedRows(table, start_id, last_id, failed_list), FAILED)
            /\ cons' = [IdleCons EXCEPT !.pc = "mr_scanned", !.last_id = last_id,
                                         !.failed_list = failed_list]
            /\ at_call' = table
            /\ UNCHANGED batch
       ELSE /\ batch' = <<>>
            /\ UNCHANGED <<table, cons, at_call>>
    /\ UNCHANGED <<start_id, phase, mon, put_ret, returned>>
    /\ UNCHANGED aux

\* the second UPDATE
MrScanned ==
    /\ phase = "running"
    /\ cons.pc = "mr_scanned"
    /\ table' = SetStatus(table, ScannedRows(table, start_id, cons.last_id), SCANNED)
    /\ cons' = [cons EXCEPT !.pc = "mr_max"]
    /\ UNCHANGED <<start_id, phase, mon, batch, put_ret, at_call, returned>>
    /\ UNCHANGED aux

\* the MAX query and the update of start_id
MrStartId ==
    /\ phase = "running"
    /\ cons.pc = "mr_max"
    /\ start_id' = NewStartId(MaxScannedId(table, start_id), start_id)
    /\ cons' = IdleCons
    /\ batch' = <<>>
    /\ at_call' = <<>>
    /\ UNCHANGED <<table, phase, mon, put_ret, returned>>
    /\ UNCHANGED aux

\* -------------------------------------------------------- get_scan_count
GscScanned ==
    /\ phase = "running"
    /\ mon.pc = "idle"
    /\ mon' = [pc |-> "gsc_total", scanned |-> CountScanned(table)]
    /\ UNCHANGED <<table, start_id, phase, cons, batch, put_ret, at_call, returned>>
    /\ UNCHANGED aux

\* the pair get_scan_count returns once its second query has run
GscReturn == <<CountTotal(table), mon.scanned>>

GscTotal ==
    /\ phase = "running"
    /\ mon.pc = "gsc_total"
    /\ mon' = [pc |-> "gsc_done", scanned |-> mon.scanned, total |-> GscReturn[1]]
    /\ UNCHANGED <<table, start_id, phase, cons, batch, put_ret, at_call, returned>>
    /\ UNCHANGED aux

\* --------------------------------------------------------- get_last_time
GetLastTime ==
    /\ phase = "running"
    /\ mon.pc = "idle"
    /\ mon' = [pc |-> "glt_done", time |-> LastTime(table)]
    /\ UNCHANGED <<table, start_id, phase, cons, batch, put_ret, at_call, returned>>
    /\ UNCHANGED aux

\* the poller takes the value a finished call returned and is free to call again
MonReturn ==
    /\ phase = "running"
    /\ mon.pc \in {"gsc_done", "glt_done"}
    /\ mon' = IdleMon
    /\ UNCHANGED <<table, start_id, phase, cons, batch, put_ret, at_call, returned>>
    /\ UNCHANGED aux

\* what a mark_result that meets no error leaves when no other operation runs
\* between its queries: the rows and start_id
MarkResultDone(t, s, last_id, failed_list) ==
    IF last_id > s
    THEN LET t1 == SetStatus(t, FailedRows(t, s, last_id, failed_list), FAILED)
             t2 == SetStatus(t1, ScannedRows(t1, s, last_id), SCANNED)
         IN  [table |-> t2, start_id |-> NewStartId(MaxScannedId(t2, s), s)]
    ELSE [table |-> t, start_id |-> s]

\* ------------------------------------------------------- database errors
\* the pending query of the consumer raises: the call ends in DatabaseError
ConsDatabaseError ==
    /\ phase = "running"
    /\ cons.pc # "idle"
    /\ cons' = IdleCons
    /\ at_call' = <<>>
    /\ UNCHANGED <<table, start_id, phase, mon, batch, put_ret, returned>>
    /\ UNCHANGED aux

\* the second COUNT of get_scan_count raises
MonDatabaseError ==
    /\ phase = "running"
    /\ mon.pc = "gsc_total"
    /\ mon' = IdleMon
    /\ UNCHANGED <<table, start_id, phase, cons, batch, put_ret, at_call, returned>>
    /\ UNCHANGED aux

\* mark_result raises DatabaseError at its first UPDATE: nothing was written
MrFailedDatabaseError(last_id, failed_list) ==
    /\ phase = "running"
    /\ cons.pc = "idle"
    /\ last_id > start_id
    /\ failed_call' = [t |-> table, s |-> start_id, last_id |-> last_id,
                       failed_list |-> failed_list, left |-> table]
    /\ UNCHANGED <<qvars, callers, claim_count, config, workers>>

\* mark_result raises DatabaseError at its second UPDATE or at its MAX query
MrDatabaseError ==
    /\ phase = "running"
    /\ cons.pc \in {"mr_scanned", "mr_max"}
    /\ failed_call' = [t |-> at_call, s |-> start_id, last_id |-> cons.last_id,
                       failed_list |-> cons.failed_list, left |-> table]
    /\ cons' = IdleCons
    /\ at_call' = <<>>
    /\ UNCHANGED <<table, start_id, phase, mon, batch, put_ret, returned>>
    /\ UNCHANGED <<callers, claim_count, config, workers>>

\* ------------------------------------------------------ crash and restart
\* the process dies: the table stays, everything in memory is gone
Crash ==
    /\ phase # "down"
    /\ phase' = "down"
    /\ start_id' = 0
    /\ cons' = IdleCons
    /\ mon' = IdleMon
    /\ batch' = <<>>
    /\ put_ret' = "none"
    /\ at_call' = <<>>
    /\ returned' = {}
    /\ callers' = [c \in Callers |-> IdleCaller]
    /\ claim_count' = <<>>
    /\ failed_call' = <<>>
    /\ workers' = [w \in Workers |-> IdleWorker]
    /\ UNCHANGED <<table, config>>

\* NewRequestModel.__init__: _init_start_id
Construct ==
    /\ phase = "down"
    /\ start_id' = InitStartId(table)
    /\ phase' = "constructed"
    /\ UNCHANGED <<table, cons, mon, batch, put_ret, at_call, returned>>
    /\ UNCHANGED aux

ResetUnscannedItem ==
    /\ phase = "constructed"
    /\ table' = ResetRows(table)
    /\ phase' = "running"
    /\ UNCHANGED <<start_id, cons, mon, batch, put_ret, at_call, returned>>
    /\ UNCHANGED aux

\* ------------------------------------- get_new_scan called by several coroutines
\* how many UPDATEs of get_new_scan have marked row i
Claims(i) == IF i \in DOMAIN claim_count THEN claim_count[i] ELSE 0

\* the call and its first query
CallerProbe(c, count) ==
    /\ phase = "running"
    /\ callers[c].pc = "idle"
    /\ IF ProbeRows(table, start_id) = {}
       THEN callers' = [callers EXCEPT ![c] = [IdleCaller EXCEPT !.pc = "done"]]
       ELSE \E f \in ProbeRows(table, start_id) :
               callers' = [callers EXCEPT ![c] = [IdleCaller EXCEPT
                              !.pc = "gns_claim", !.count = count, !.fetch_star_id = f]]
    /\ UNCHANGED <<qvars, claim_count, failed_call, config, workers>>

\* the UPDATE
CallerClaim(c) ==
    /\ phase = "running"
    /\ callers[c].pc = "gns_claim"
    /\ LET rows == ClaimRows(table, start_id, callers[c].count)
           row_count == Cardinality(rows)
       IN  /\ table' = SetStatus(table, rows, IN_PROGRESS)
           /\ claim_count' = [i \in DOMAIN claim_count \cup rows |->
                                 Claims(i) + (IF i \in rows THEN 1 ELSE 0)]
           /\ callers' = [callers EXCEPT ![c] = [@ EXCEPT
                             !.pc = IF row_count = 0 THEN "done" ELSE "gns_fetch",
                             !.row_count = row_count, !.claimed = rows]]
    /\ UNCHANGED <<start_id, phase, cons, mon, batch, put_ret, at_call, returned>>
    /\ UNCHANGED <<failed_call, config, workers>>

\* the SELECT of the marked rows
CallerFetch(c) ==
    /\ phase = "running"
    /\ callers[c].pc = "gns_fetch"
    /\ callers' = [callers EXCEPT ![c] = [@ EXCEPT !.pc = "done",
                      !.result = FetchRows(table, callers[c].fetch_star_id,
                                           callers[c].row_count)]]
    /\ UNCHANGED <<qvars, claim_count, failed_call, config, workers>>

\* the coroutine takes the list and is free to call again
CallerReturn(c) ==
    /\ phase = "running"
    /\ callers[c].pc = "done"
    /\ callers' = [callers EXCEPT ![c] = IdleCaller]
    /\ UNCHANGED <<qvars, claim_count, failed_call, config, workers>>

\* ------------------------------------------------------------ send_request
\* the HTTP verbs aiohttp.ClientSession has a method for; get stands for them all
Verbs == {"get"}

\* the names getattr finds on the ClientSession: the verbs, and members that are
\* no verb, such as close
SessionAttributes == Verbs \cup {"close"}

\* what request_data_ins.get_method() may give: a verb, the name of another member
\* of the ClientSession, a name the ClientSession does not have
Methods == {"get", "close", "brew"}

\* the loop test taken for "retries left"
RetryLeftStrict(retry_times) == retry_times > 0

\* while retry_times >= 0
RetryLeft(retry_times) == retry_times >= 0

\* a connector that hands out connections without a limit
ConnectorUnlimited(ws, limit) == TRUE

\* TCPConnector(limit = max_concurrent_request): a request gets a connection while
\* fewer than limit are in use
ConnectorHasRoom(ws, limit) ==
    Cardinality({w \in DOMAIN ws : ws[w].pc = "inflight"}) < limit

\* the call: getattr(self.session, method), then retry_times = Config().get_config(...)
SendRequest(w, method) ==
    /\ workers[w].pc = "idle"
    /\ workers' = [workers EXCEPT ![w] =
          IF method \in SessionAttributes
          THEN [IdleWorker EXCEPT !.pc = "loop", !.method = method,
                                  !.retry_times = config.retry_times]
          ELSE [IdleWorker EXCEPT !.pc = "AttributeError", !.method = method]]
    /\ UNCHANGED <<qvars, callers, claim_count, failed_call, config>>

\* the loop test; inside the try, http_func(...) is called: a verb starts a request
\* that waits for a connection, another member raises TypeError; after the loop,
\* retry_times < 0 raises ScanRequestFailed
LoopTest(w) ==
    /\ workers[w].pc = "loop"
    /\ workers' = [workers EXCEPT ![w] =
          IF RetryLeft(@.retry_times)
          THEN IF @.method \in Verbs
               THEN [@ EXCEPT !.pc = "waiting", !.attempts = @ + 1]
               ELSE [@ EXCEPT !.pc = "sleep", !.attempts = @ + 1, !.failures = @ + 1]
          ELSE [@ EXCEPT !.pc = "ScanRequestFailed"]]
    /\ UNCHANGED <<qvars, callers, claim_count, failed_call, config>>

\* the connector gives the request a connection
Acquire(w) ==
    /\ workers[w].pc = "waiting"
    /\ ConnectorHasRoom(workers, config.max_concurrent_request)
    /\ workers' = [workers EXCEPT ![w] = [@ EXCEPT !.pc = "inflight"]]
    /\ UNCHANGED <<qvars, callers, claim_count, failed_call, config>>

\* asyncio.TimeoutError (the total timeout also runs while the request waits for a
\* connection) or aiohttp ClientError: the connection is given back, sleep(1)
TimeoutOrClientError(w) ==
    /\ workers[w].pc \in {"waiting", "inflight"}
    /\ workers' = [workers EXCEPT ![w] = [@ EXCEPT !.pc = "sleep", !.failures = @ + 1]]
    /\ UNCHANGED <<qvars, callers, claim_count, failed_call, config>>

\* any other Exception of the attempt: sleep(1)
OtherException(w) ==
    /\ workers[w].pc = "inflight"
    /\ workers' = [workers EXCEPT ![w] = [@ EXCEPT !.pc = "sleep", !.failures = @ + 1]]
    /\ UNCHANGED <<qvars, callers, claim_count, failed_call, config>>

\* the response is read: break, and retry_times >= 0 returns it; the response is
\* named by the number of the attempt that got it
Success(w) ==
    /\ workers[w].pc = "inflight"
    /\ workers' = [workers EXCEPT ![w] = [@ EXCEPT !.pc = "returned", !.response = workers[w].attempts]]
    /\ UNCHANGED <<qvars, callers, claim_count, failed_call, config>>

\* sleep(1) is over: retry_times -= 1
Wake(w) ==
    /\ workers[w].pc = "sleep"
    /\ workers' = [workers EXCEPT ![w] = [@ EXCEPT !.pc = "loop", !.retry_times = @ - 1]]
    /\ UNCHANGED <<qvars, callers, claim_count, failed_call, config>>

\* the caller has the response or the exception; the coroutine may call again
Complete(w) ==
    /\ workers[w].pc \in {"returned", "ScanRequestFailed", "AttributeError"}
    /\ workers' = [workers EXCEPT ![w] = IdleWorker]
    /\ UNCHANGED <<qvars, callers, claim_count, failed_call, config>>

\* ------------------------------------------------------------ specification
\* Spec: producers, one consumer that may call get_new_scan and mark_result with
\* any arguments, one call at a time, database errors, crash and restart.
ProtocolPut == \E r \in ProtocolInputs(table) : Put(r, LastTime(table))

GetNewScan == (\E count \in 0..MaxCount : GnsProbe(count)) \/ GnsClaim \/ GnsFetch

MarkResult ==
    \/ \E last_id \in 0..MaxHash, failed_list \in SUBSET (1..MaxHash) :
          MrFailed(last_id, failed_list)
    \/ MrScanned
    \/ MrStartId

Restart == Crash \/ Construct \/ ResetUnscannedItem

Next ==
    \/ ProtocolPut
    \/ GetNewScan
    \/ MarkResult
    \/ ConsDatabaseError
    \/ Restart

Spec == Init /\ [][Next]_vars

\* ConsumerSpec: the consumer the scanner runs.  It calls get_new_scan, asking for
\* at least one record, when it holds no batch, and reports the batch it holds with
\* mark_result(last id of the batch, the failed ids among the batch); no database
\* errors.
ScannerGetNewScan ==
    \/ (batch = <<>> /\ \E count \in 1..MaxCount : GnsProbe(count))
    \/ GnsClaim
    \/ GnsFetch

ScannerMarkResult ==
    \/ (/\ batch # <<>>
        /\ \E failed_list \in SUBSET Range(batch) : MrFailed(batch[Len(batch)], failed_list))
    \/ MrScanned
    \/ MrStartId

ConsumerNext ==
    \/ ProtocolPut
    \/ ScannerGetNewScan
    \/ ScannerMarkResult
    \/ Restart

ConsumerSpec == Init /\ [][ConsumerNext]_vars

\* FairSpec: ConsumerSpec with the event loop running every coroutine that can take a
\* step and the supervisor finishing the construction of a queue it started.
FairSpec ==
    /\ ConsumerSpec
    /\ WF_vars(ScannerGetNewScan)
    /\ WF_vars(ScannerMarkResult)
    /\ WF_vars(Construct \/ ResetUnscannedItem)

\* PollSpec: ConsumerSpec with the progress poller running beside the consumer.
GetScanCount == GscScanned \/ GscTotal \/ MonDatabaseError

PollNext ==
    \/ ConsumerNext
    \/ GetScanCount
    \/ GetLastTime
    \/ MonReturn

PollSpec == Init /\ [][PollNext]_vars

\* StoreSpec: the producers with every payload, hash and timestamp, beside
\* get_last_time; the table survives crash and restart.
StorePut == \E r \in Inputs, now \in Stamps(table) : Put(r, now)

StoreNext ==
    \/ StorePut
    \/ GetLastTime
    \/ MonReturn
    \/ Restart

StoreSpec == Init /\ [][StoreNext]_vars

\* SessionSpec: the worker coroutines of one scanner module calling send_request on
\* the shared Session, under every configuration.
WorkerStep(w) ==
    \/ LoopTest(w)
    \/ Acquire(w)
    \/ TimeoutOrClientError(w)
    \/ OtherException(w)
    \/ Success(w)
    \/ Wake(w)

SessionNext ==
    \E w \in Workers :
        \/ \E method \in Methods : SendRequest(w, method)
        \/ WorkerStep(w)
        \/ Complete(w)

SessionInit == InitQueue /\ InitSession /\ config \in Configs

SessionSpec == SessionInit /\ [][SessionNext]_vars

\* FairSessionSpec: the event loop runs every coroutine that can go on, and every
\* pending request is answered or runs into its timeout.
FairSessionSpec == SessionSpec /\ \A w \in Workers : WF_vars(WorkerStep(w))

\* ResetSpec: ConsumerSpec with reset_unscanned_item also called on the running
\* queue, at any moment and any number of times.
ResetUnscannedItemCall ==
    /\ phase = "running"
    /\ table' = ResetRows(table)
    /\ UNCHANGED <<start_id, phase, cons, mon, batch, put_ret, at_call, returned>>
    /\ UNCHANGED aux

ResetNext ==
    \/ ConsumerNext
    \/ ResetUnscannedItemCall

ResetSpec == Init /\ [][ResetNext]_vars

\* ConcurrentSpec: several coroutines call get_new_scan on the same table, their
\* queries interleaving in any order, beside the producers.
ConcurrentGetNewScan ==
    \E c \in Callers :
        \/ \E count \in 1..MaxCount : CallerProbe(c, count)
        \/ CallerClaim(c)
        \/ CallerFetch(c)
        \/ CallerReturn(c)

ConcurrentNext ==
    \/ ProtocolPut
    \/ ConcurrentGetNewScan

ConcurrentSpec == Init /\ [][ConcurrentNext]_vars

\* RetrySpec: the producers, the consumer calling mark_result with any arguments, and
\* mark_result raising DatabaseError at any of its three queries.  The caller of a
\* call that raised either calls again with the same arguments, before anything else
\* runs, or gives up.
MarkResultDatabaseError ==
    \/ \E last_id \in 1..MaxHash, failed_list \in SUBSET (1..MaxHash) :
          MrFailedDatabaseError(last_id, failed_list)
    \/ MrDatabaseError

\* the caller repeats the call that raised
RetryCall ==
    /\ failed_call # <<>>
    /\ MrFailed(failed_call.last_id, failed_call.failed_list)

\* the caller of the call that raised goes on without it
GiveUp ==
    /\ failed_call # <<>>
    /\ cons.pc = "idle"
    /\ failed_call' = <<>>
    /\ UNCHANGED <<qvars, callers, claim_count, config, workers>>

RetryNext ==
    \/ failed_call = <<>> /\ ProtocolPut
    \/ failed_call = <<>> /\ ScannerGetNewScan
    \/ failed_call = <<>> /\ MarkResult
    \/ failed_call = <<>> /\ MarkResultDatabaseError
    \/ failed_call # <<>> /\ (MrScanned \/ MrStartId)
    \/ RetryCall
    \/ GiveUp
    \/ Restart

RetrySpec == Init /\ [][RetryNext]_vars

\* ------------------------------------------------------------------ claims
Status(t, i) == t[i].scan_status

\* C1: in every state of a constructed queue, every record with id <= start_id
\* is SCANNED or FAILED.
CursorInvariant ==
    phase # "down" =>
        \A i \in Ids(table) : i <= start_id => Status(table, i) \in {SCANNED, FAILED}

\* C2: within one process lifetime no id is in the lists of two get_new_scan calls:
\* the list a call returns holds no id an earlier call returned.
ExactlyOnceDispatch == [][GnsFetch => Range(batch') \cap returned = {}]_vars

\* a second call has returned a batch, after an earlier call returned another id
DispatchedTwice ==
    /\ cons.pc = "idle"
    /\ batch # <<>>
    /\ returned \ Range(batch) # {}

\* C4: while the queue instance lives, no step leaves start_id smaller than it was.
StartIdMonotone == [][phase' # "down" => start_id' >= start_id]_vars

\* mark_result has advanced start_id past a failed record while a later record is dispatched
StartIdAdvanced ==
    /\ phase = "running"
    /\ start_id >= 2
    /\ \E i \in Ids(table) : i < start_id /\ Status(table, i) = FAILED
    /\ \E i \in Ids(table) : i > start_id /\ Status(table, i) = IN_PROGRESS

\* C5: every change of a record's scan_status is UNSCANNED -> IN_PROGRESS,
\* IN_PROGRESS -> SCANNED, IN_PROGRESS -> FAILED, or, in reset_unscanned_item at
\* startup only, IN_PROGRESS -> UNSCANNED or FAILED -> UNSCANNED.
StatusStateMachine ==
    [][\A i \in Ids(table) :
          LET a == Status(table, i)
              b == Status(table', i)
          IN  a # b =>
                \/ a = UNSCANNED /\ b = IN_PROGRESS /\ cons.pc = "gns_claim"
                \/ a = IN_PROGRESS /\ b \in {SCANNED, FAILED}
                       /\ (cons.pc \in {"mr_scanned"} \/ cons'.pc = "mr_scanned")
                \/ a \in {IN_PROGRESS, FAILED} /\ b = UNSCANNED /\ phase = "constructed"]_vars

\* C6: no two records share a data_hash; a put returns True exactly when its hash
\* was not in the table, and then adds one row and leaves the others as they were;
\* a put of a hash that is in the table returns False and changes no row.
InsertDeduplication ==
    [][/\ \A i, j \in Ids(table') :
             table'[i].data_hash = table'[j].data_hash => i = j
       /\ \A r \in Inputs :
             (\E now \in 0..MaxTime : Put(r, now)) =>
                LET known == \E i \in Ids(table) : table[i].data_hash = r.data_hash
                IN  /\ put_ret' = (IF known THEN "False" ELSE "True")
                    /\ Len(table') = Len(table) + (IF known THEN 0 ELSE 1)
                    /\ SubSeq(table', 1, Len(table)) = table]_vars

\* a put was answered False although the table holds the hash with another payload,
\* after puts of other hashes were answered True
DuplicateRejected ==
    /\ put_ret = "False"
    /\ Len(table) >= 2
    /\ \E i \in Ids(table) : table[i].data # table[1].data

\* C9: the list get_new_scan returns has strictly increasing ids, all above start_id,
\* all IN_PROGRESS, and at most count of them; it is empty when count = 0 and when
\* no record above start_id is UNSCANNED.
BatchShape ==
    [][/\ GnsFetch =>
            /\ \A k \in 1..Len(batch') :
                  /\ batch'[k] > start_id
                  /\ Status(table', batch'[k]) = IN_PROGRESS
                  /\ k > 1 => batch'[k - 1] < batch'[k]
            /\ Len(batch') <= cons.count
            /\ cons.count = 0 => batch' = <<>>
       /\ GnsClaim /\ cons.count = 0 => cons'.pc = "idle" /\ batch' = <<>>
       /\ \A count \in 0..MaxCount :
            GnsProbe(count)
              /\ ~(\E i \in Ids(table) : i > start_id /\ Status(table, i) = UNSCANNED)
              => cons'.pc = "idle" /\ batch' = <<>>]_vars

\* a call has returned a full batch of MaxCount records above a start_id that moved
FullBatchReturned ==
    /\ cons.pc = "idle"
    /\ Len(batch) = MaxCount
    /\ start_id > 0
    /\ \A k \in 1..Len(batch) : Status(table, batch[k]) = IN_PROGRESS

\* C10: the pair get_scan_count returns has 0 <= scanned <= total, and is (0, 0) on
\* an empty table.
ProgressCounts ==
    mon.pc = "gsc_done" =>
        /\ 0 <= mon.scanned
        /\ mon.scanned <= mon.total
        /\ table = <<>> => mon.scanned = 0 /\ mon.total = 0

\* get_scan_count has returned counts that a mark_result running beside it outdated
CountsInterleaved ==
    /\ mon.pc = "gsc_done"
    /\ mon.scanned >= 1
    /\ mon.scanned < CountScanned(table)
    /\ mon.scanned < mon.total

\* C7: when mark_result(last_id, failed_ids) reports a dispatched batch whose highest
\* ids are all in failed_ids, the new start_id is the largest id in
\* (old start_id, last_id] that became SCANNED in this call (the old start_id when
\* there is none), it is below every id of the failed tail, and it is the old
\* start_id when the whole batch is in failed_ids.
FailureTail ==
    [][MrStartId /\ batch # <<>> /\ cons.last_id = batch[Len(batch)]
         /\ batch[Len(batch)] \in cons.failed_list =>
          LET tail == {batch[k] : k \in {n \in 1..Len(batch) :
                          \A j \in n..Len(batch) : batch[j] \in cons.failed_list}}
              became == {i \in Ids(at_call) :
                            /\ start_id < i
                            /\ i <= cons.last_id
                            /\ Status(at_call, i) # SCANNED
                            /\ Status(table, i) = SCANNED}
          IN  /\ start_id' = (IF became = {} THEN start_id ELSE Max(became))
              /\ \A i \in tail : start_id' < i
              /\ Range(batch) \subseteq cons.failed_list => start_id' = start_id]_vars

\* the records that are not SCANNED
NotScanned(t) == {i \in Ids(t) : Status(t, i) # SCANNED}

\* the consumer's call is the first one of a process that was started on a table
\* with rows: nothing was put, claimed or returned since reset_unscanned_item
FirstCallAfterRestart ==
    /\ put_ret = "none"
    /\ returned = {}
    /\ at_call # <<>>
    /\ Len(at_call) = Len(table)
    /\ \A i \in Ids(at_call) : Status(at_call, i) \in {UNSCANNED, SCANNED}
    /\ start_id = InitStartId(at_call)

\* C8: after a crash and the construction of a new queue (start_id, then
\* reset_unscanned_item) no record is IN_PROGRESS or FAILED, every SCANNED record is
\* still SCANNED, start_id is (smallest id not SCANNED) - 1, or 0 when there is none,
\* and the next get_new_scan(k) returns exactly the k lowest-id records that were
\* not SCANNED.
RestartRecovery ==
    [][/\ ResetUnscannedItem =>
            /\ \A i \in Ids(table') : Status(table', i) \in {UNSCANNED, SCANNED}
            /\ \A i \in Ids(table) : Status(table, i) = SCANNED => Status(table', i) = SCANNED
            /\ start_id' = (IF NotScanned(table) = {} THEN 0 ELSE Min(NotScanned(table)) - 1)
       /\ GnsFetch /\ FirstCallAfterRestart =>
            batch' = Limit(Sorted(NotScanned(at_call)), cons.count)]_vars

\* C3: once crashes have stopped, every record put into the table is returned by
\* some get_new_scan and reaches SCANNED or FAILED, and none stays UNSCANNED or
\* IN_PROGRESS for ever.
NoRequestLost ==
    \A i \in 1..MaxHash :
        <>[](phase = "running") =>
            /\ <>(i \in Ids(table)) => <>(i \in returned)
            /\ <>(i \in Ids(table)) => <>(i \in Ids(table) /\ Status(table, i) \in {SCANNED, FAILED})
            /\ ~<>[](i \in Ids(table) /\ Status(table, i) \in {UNSCANNED, IN_PROGRESS})

\* C11: send_request with retry_times = R makes at most R + 1 attempts and always
\* ends; it returns the response of its first successful attempt, which is its last
\* attempt, and raises ScanRequestFailed exactly when R + 1 attempts have failed.
BoundedRetry ==
    /\ [](\A w \in Workers :
            LET wk == workers[w]
                R == config.retry_times
            IN  /\ wk.attempts <= R + 1
                /\ wk.pc = "returned" =>
                      /\ wk.response = wk.attempts
                      /\ wk.failures = wk.attempts - 1
                /\ wk.pc = "ScanRequestFailed" =>
                      /\ wk.attempts = R + 1
                      /\ wk.failures = R + 1
                /\ wk.failures = R + 1 => wk.pc \in {"sleep", "loop", "ScanRequestFailed"}
                /\ wk.pc = "loop" /\ wk.retry_times < 0 => wk.failures = R + 1)
    /\ \A w \in Workers :
          workers[w].pc = "loop" ~> workers[w].pc \in {"returned", "ScanRequestFailed"}

\* a call has returned the response of its third attempt after two failures
ThirdAttemptReturned ==
    \E w \in Workers :
       /\ workers[w].pc = "returned"
       /\ workers[w].failures = 2
       /\ workers[w].response = 3
       /\ config.retry_times = 2

\* the requests that hold a connection
InFlight == {w \in Workers : workers[w].pc = "inflight"}

\* C12: with max_concurrent_request = N, never more than N requests of the worker
\* coroutines (retries included) are in flight, and every send_request call ends:
\* no call waits for a connection for ever.
ConcurrencyCap ==
    /\ [](Cardinality(InFlight) <= config.max_concurrent_request)
    /\ \A w \in Workers :
          workers[w].pc \in {"loop", "waiting", "inflight", "sleep"}
              ~> workers[w].pc \in {"returned", "ScanRequestFailed"}

\* the cap is reached by a retry while another coroutine's request waits for a connection
CapReached ==
    /\ Cardinality(InFlight) = config.max_concurrent_request
    /\ \E w \in InFlight : workers[w].failures > 0
    /\ \E w \in Workers : workers[w].pc = "waiting"

\* the running mark_result was called with no failed ids on a range in which every
\* record up to last_id was SCANNED or FAILED (an empty table included)
CompletedRange ==
    /\ cons.failed_list = {}
    /\ \A i \in Ids(at_call) : i <= cons.last_id => Status(at_call, i) \in {SCANNED, FAILED}

\* the running mark_result has changed the status of no record
StatusesKept == \A i \in Ids(at_call) : Status(table', i) = Status(at_call, i)

\* C13 as stated: mark_result with last_id <= start_id, and mark_result(last_id, [])
\* on an empty table or a completed range, leave every status and start_id as they were.
MarkResultNoOp ==
    [][/\ \A last_id \in 0..MaxHash, failed_list \in SUBSET (1..MaxHash) :
             MrFailed(last_id, failed_list) /\ last_id <= start_id =>
                 table' = table /\ start_id' = start_id /\ cons'.pc = "idle"
       /\ MrStartId /\ CompletedRange => StatusesKept /\ start_id' = start_id]_vars

\* C13 amended: in these cases no record changes its status; start_id is unchanged
\* when last_id <= start_id, and in the other cases unless SCANNED records lie above
\* it: then it becomes the largest SCANNED id.
MarkResultNoOpStatuses ==
    [][/\ \A last_id \in 0..MaxHash, failed_list \in SUBSET (1..MaxHash) :
             MrFailed(last_id, failed_list) /\ last_id <= start_id =>
                 table' = table /\ start_id' = start_id /\ cons'.pc = "idle"
       /\ MrStartId /\ CompletedRange =>
             /\ StatusesKept
             /\ LET above == {i \in Ids(table) : i > start_id /\ Status(table, i) = SCANNED}
                IN  start_id' = (IF above = {} THEN start_id ELSE Max(above))]_vars

\* mark_result(last_id, []) has run its two UPDATEs on a completed range above start_id
\* that holds a FAILED record, with a record dispatched beyond last_id
NoOpCallRunning ==
    /\ cons.pc = "mr_max"
    /\ CompletedRange
    /\ \E i \in Ids(at_call) : i <= cons.last_id /\ i > start_id /\ Status(at_call, i) = FAILED
    /\ \E i \in Ids(at_call) : i > cons.last_id /\ Status(at_call, i) = IN_PROGRESS

\* C14: one call of reset_unscanned_item leaves no record IN_PROGRESS or FAILED and
\* leaves the UNSCANNED and SCANNED records and start_id as they were; a second call
\* right after it changes nothing.
ResetIdempotent ==
    [][ResetUnscannedItem \/ ResetUnscannedItemCall =>
          /\ Len(table') = Len(table)
          /\ \A i \in Ids(table) :
                /\ Status(table', i) \notin {IN_PROGRESS, FAILED}
                /\ Status(table, i) \in {UNSCANNED, SCANNED} => table'[i] = table[i]
          /\ start_id' = start_id
          /\ ResetRows(table') = table'
          /\ (\A i \in Ids(table) : Status(table, i) \in {UNSCANNED, SCANNED}) => table' = table]_vars

\* a new process has reset a FAILED or IN_PROGRESS record that lies below a SCANNED one
ResetDone ==
    /\ phase = "running"
    /\ put_ret = "none"
    /\ returned = {}
    /\ cons.pc = "idle"
    /\ \E i, j \in Ids(table) :
          /\ i < j
          /\ start_id = i - 1
          /\ Status(table, i) = UNSCANNED
          /\ Status(table, j) = SCANNED

\* C15: a send_request whose method is no HTTP verb of the session fails before any
\* attempt: it makes no attempt, never enters the retry loop or its sleeps, and does
\* not end in ScanRequestFailed.
UnknownMethodRejected ==
    \A w \in Workers :
        workers[w].pc # "idle" /\ workers[w].method \notin Verbs =>
            /\ workers[w].attempts = 0
            /\ workers[w].pc = "AttributeError"

\* the ids of the range of the running mark_result: old start_id < id <= last_id
InRange(i) == start_id < i /\ i <= cons.last_id

\* C16: when mark_result(last_id, failed_ids) with last_id > start_id returns, every
\* record of its range that was IN_PROGRESS is FAILED when its id is in failed_ids
\* and SCANNED otherwise; the call makes no id of failed_ids SCANNED; and no record
\* above last_id or at or below the old start_id has changed its status.
MarkResultPostcondition ==
    [][MrStartId =>
          /\ \A i \in Ids(at_call) :
                /\ InRange(i) /\ Status(at_call, i) = IN_PROGRESS =>
                      Status(table', i) = (IF i \in cons.failed_list THEN FAILED ELSE SCANNED)
                /\ i \in cons.failed_list /\ Status(table', i) = SCANNED =>
                      ~InRange(i) /\ Status(at_call, i) = SCANNED
                /\ ~InRange(i) => Status(table', i) = Status(at_call, i)
          /\ \A i \in Ids(table') \ Ids(at_call) : Status(table', i) = UNSCANNED]_vars

\* the two UPDATEs of a mark_result have made one dispatched record FAILED and another
\* SCANNED, with a record dispatched above last_id
FailedAndScannedMarked ==
    /\ cons.pc = "mr_max"
    /\ \E i, j, k \in Ids(at_call) :
          /\ InRange(i) /\ Status(at_call, i) = IN_PROGRESS /\ Status(table, i) = FAILED
          /\ InRange(j) /\ Status(at_call, j) = IN_PROGRESS /\ Status(table, j) = SCANNED
          /\ k > cons.last_id /\ Status(table, k) = IN_PROGRESS

\* C17: when the queries of several get_new_scan calls interleave, every record is
\* marked IN_PROGRESS by the UPDATE of at most one call, and the UPDATE of a call
\* marks at most count rows.
NoDoubleClaim ==
    /\ \A i \in DOMAIN claim_count : claim_count[i] <= 1
    /\ \A c \in Callers : Cardinality(callers[c].claimed) <= callers[c].count
    /\ \A c, d \in Callers : c # d => callers[c].claimed \cap callers[d].claimed = {}

\* two calls have both run their UPDATE before either ran its SELECT, and one of
\* them has not marked the row its probe saw
ClaimsInterleaved ==
    \E c, d \in Callers :
       /\ c # d
       /\ callers[c].pc = "gns_fetch"
       /\ callers[d].pc = "gns_fetch"
       /\ callers[c].fetch_star_id \notin callers[c].claimed

\* the records the UPDATE of the consumer's running get_new_scan has marked
ClaimedByCall ==
    {i \in Ids(table) :
        /\ Status(table, i) = IN_PROGRESS
        /\ i \in Ids(at_call) => Status(at_call, i) = UNSCANNED}

\* C18: the list a get_new_scan of the single consumer returns holds exactly the
\* records its UPDATE marked IN_PROGRESS, whichever row the probe returned and
\* whether or not earlier batches are still IN_PROGRESS.
ClaimedEqualsReturned == [][GnsFetch => Range(batch') = ClaimedByCall]_vars

\* every IN_PROGRESS record has a smaller id than every UNSCANNED record above start_id
InProgressBelowUnscanned(t, s) ==
    \A i, j \in Ids(t) :
        Status(t, i) = IN_PROGRESS /\ Status(t, j) = UNSCANNED /\ j > s => i < j

\* C19: within one process lifetime every IN_PROGRESS record has a smaller id than
\* every UNSCANNED record with id > start_id, and every list get_new_scan returns
\* has ids larger than all ids returned before.
FifoClaimOrder ==
    [][/\ phase' = "running" => InProgressBelowUnscanned(table', start_id')
       /\ GnsFetch => \A i \in Range(batch'), j \in returned : j < i]_vars

\* a second batch was returned while the first is still IN_PROGRESS and a later
\* record waits UNSCANNED
SecondBatchWhileFirstOpen ==
    /\ cons.pc = "idle"
    /\ batch # <<>>
    /\ \E j \in returned \ Range(batch) : Status(table, j) = IN_PROGRESS
    /\ \E k \in Ids(table) : Status(table, k) = UNSCANNED /\ k > start_id

\* the running mark_result repeats the call that raised DatabaseError last: the same
\* arguments, on the rows and start_id that call left, and no row was added since
\* that call started
IsRetry ==
    /\ failed_call # <<>>
    /\ cons.last_id = failed_call.last_id
    /\ cons.failed_list = failed_call.failed_list
    /\ at_call = failed_call.left
    /\ start_id = failed_call.s
    /\ Len(table) = Len(failed_call.t)

\* C20: a mark_result that raises DatabaseError at any of its three queries leaves
\* start_id as it was, and calling it again with the same arguments, nothing else
\* having run in between, ends with the statuses and start_id of a single call that
\* met no error.
RetryAfterDatabaseError ==
    [][/\ MarkResultDatabaseError => start_id' = start_id
       /\ MrStartId /\ Len(table) = Len(at_call) =>
             /\ table' = MarkResultDone(at_call, start_id, cons.last_id, cons.failed_list).table
             /\ start_id' = MarkResultDone(at_call, start_id, cons.last_id, cons.failed_list).start_id
       /\ MrStartId /\ IsRetry =>
             LET single == MarkResultDone(failed_call.t, failed_call.s,
                                          failed_call.last_id, failed_call.failed_list)
             IN  table' = single.table /\ start_id' = single.start_id]_vars

\* the call is repeated after it raised at its MAX query, having marked a record FAILED
\* and another SCANNED
RetryRunning ==
    /\ cons.pc = "mr_max"
    /\ IsRetry
    /\ \E i, j \in Ids(failed_call.t) :
          /\ Status(failed_call.t, i) = IN_PROGRESS /\ Status(failed_call.left, i) = FAILED
          /\ Status(failed_call.t, j) = IN_PROGRESS /\ Status(failed_call.left, j) = SCANNED

====
